---- MODULE Spec2Model ----
(***************************************************************************)
(* Model of the evaluation harness of rag-lifecycle-demo:                  *)
(*   eval/run.mjs            generation run executor and verdict engine    *)
(*   eval/retrieval_eval.mjs retrieval run executor                        *)
(*   eval/compare.mjs        run comparator                                *)
(*                                                                         *)
(* A JavaScript string is a sequence of characters.  A character is a      *)
(* one-character TLA+ string, or "U+XXXX" for a code point outside ASCII.  *)
(***************************************************************************)
EXTENDS Integers, Sequences, FiniteSets, TLC

VARIABLES
  normInput,   \* the string handed to the normalizer
  normPrev,    \* the normalizer's argument at its latest application
  normCur,     \* the normalizer's latest result
  normSteps,   \* how many times the normalizer has been applied
  cmpPc,       \* compare.mjs: "start", "done", "raised" (uncaught TypeError)
  runA,        \* compare.mjs: the items array of the old run's archive file
  runB,        \* compare.mjs: the items array of the new run's archive file
  regressions, \* compare.mjs: the four result arrays
  improvements,
  errorsFixed,
  errorsNew,
  mode,        \* which executor runs: "ollama", "api" (run.mjs, --api), "retrieval"
  golden,      \* the JSON value of the golden file
  bodies,      \* the bodies the pipeline under test may answer a case with
  pc,          \* the executor's position in main()
  health,      \* the liveness probe: "none" (not made), "ok", "failed"
  warmup,      \* the warm-up call: "none" (not made), "ok", "failed"
  idx,         \* the 1-based position of the loop in tests
  calls,       \* the pipeline calls issued so far: 0 for the warm-up, or a case's position
  responses,   \* the pipeline's response to each case call made so far
  verdicts,    \* the positions of the cases handed to a check function
  items,       \* items
  passed,      \* passed (run.mjs), hits (retrieval_eval.mjs)
  archive,     \* the archive files written to eval/runs
  runsDir,     \* compare.mjs: what readdirSync gives for eval/runs, or NoDir
  prevArg,     \* compare.mjs: the value given after --prev, if any
  selPc,       \* compare.mjs: "start", "picked", "exited" (process.exit(1))
  aPath,       \* compare.mjs: the old run's file
  bPath,       \* compare.mjs: the new run's file
  runFiles,    \* the files of eval/runs and their content
  latest,      \* the results files (resultsPath) and their content
  chkType,     \* a check function applied on its own: the eval type, or "hit"
  chkOut,      \* its output argument (the result list of the hit checker)
  chkRef,      \* its reference or pattern argument
  chkRes,      \* what it returned, as { pass, error }
  chkDone      \* whether it has been applied

normVars == <<normInput, normPrev, normCur, normSteps>>
cmpVars == <<cmpPc, runA, runB, regressions, improvements, errorsFixed, errorsNew>>

runVars == <<mode, golden, bodies, pc, health, warmup, idx, calls, responses, verdicts,
             items, passed, archive>>

selVars == <<runsDir, prevArg, selPc, aPath, bPath>>
histVars == <<runFiles, latest>>
chkVars == <<chkType, chkOut, chkRef, chkRes, chkDone>>

vars == <<normInput, normPrev, normCur, normSteps,
          cmpPc, runA, runB, regressions, improvements, errorsFixed, errorsNew,
          mode, golden, bodies, pc, health, warmup, idx, calls, responses,
          verdicts, items, passed, archive,
          runsDir, prevArg, selPc, aPath, bPath,
          runFiles, latest,
          chkType, chkOut, chkRef, chkRes, chkDone>>

\* the variables outside the normalizer, the comparison and the executors
restVars == <<selVars, histVars, chkVars>>

----------------------------------------------------------------------------
(* Bounds of the model *)

\* longest enumerated input string of the normalizer
MaxLen == 3

\* most items in an enumerated archive file
MaxItems == 2

\* most rows in an enumerated golden file
MaxCases == 2

\* most files in the enumerated eval/runs
MaxRuns == 3

----------------------------------------------------------------------------
(* JavaScript values *)

\* null / undefined where a string is expected
Null == <<"<null>">>

\* null where an error code is expected
JsNull == "null"

\* undefined where an object is expected (Map.prototype.get of an absent key)
Undefined == [undefined |-> TRUE]

\* (s || ""): null, undefined and the empty string all become ""
OrEmpty(s) == IF s = Null THEN <<>> ELSE s

RECURSIVE SeqsUpTo(_, _)
\* all sequences over S of length at most n
SeqsUpTo(S, n) ==
  IF n = 0 THEN {<<>>}
  ELSE LET shorter == SeqsUpTo(S, n - 1)
       IN  shorter \cup {Append(s, c) : s \in shorter, c \in S}

----------------------------------------------------------------------------
(* Character classes of the regular expressions in the source *)

\* \s of a JavaScript regular expression, and what trim() removes
WhiteSpace == {" ", "\t", "\n", "\r", "U+00A0"}

\* [^\S\r\n]: whitespace other than CR and LF
InlineSpace == WhiteSpace \ {"\r", "\n"}

\* [.,;:!?]
TrailingPunct == {".", ",", ";", ":", "!", "?"}

DoubleQuotes == {"U+201C", "U+201D", "U+201E", "U+201F"}
SingleQuotes == {"U+2018", "U+2019", "U+201A", "U+201B"}
Dashes == {"U+2013", "U+2014"}

UpperCase == <<"A", "B", "C", "D", "E", "F", "G", "H", "I", "J", "K", "L", "M",
               "N", "O", "P", "Q", "R", "S", "T", "U", "V", "W", "X", "Y", "Z">>
LowerCase == <<"a", "b", "c", "d", "e", "f", "g", "h", "i", "j", "k", "l", "m",
               "n", "o", "p", "q", "r", "s", "t", "u", "v", "w", "x", "y", "z">>

\* String.prototype.toLowerCase on one character
LowerChar(c) ==
  IF \E i \in 1..Len(UpperCase) : UpperCase[i] = c
  THEN LowerCase[CHOOSE i \in 1..Len(UpperCase) : UpperCase[i] = c]
  ELSE IF c = "U+FF21" THEN "U+FF41" ELSE c

toLowerCase(s) == [i \in 1..Len(s) |-> LowerChar(s[i])]

\* NFKC of one character: the compatibility decompositions of the modelled
\* code points (NO-BREAK SPACE, HORIZONTAL ELLIPSIS, FULLWIDTH A / a)
NFKCChar(c) ==
  CASE c = "U+00A0" -> <<" ">>
    [] c = "U+2026" -> <<".", ".", ".">>
    [] c = "U+FF21" -> <<"A">>
    [] c = "U+FF41" -> <<"a">>
    [] OTHER -> <<c>>

RECURSIVE normalizeNFKC(_)
\* String.prototype.normalize("NFKC"): character by character, computed by
\* halves so that a long string does not nest deeply
normalizeNFKC(s) ==
  IF s = <<>> THEN <<>>
  ELSE IF Len(s) = 1 THEN NFKCChar(s[1])
  ELSE LET half == Len(s) \div 2
       IN  normalizeNFKC(SubSeq(s, 1, half))
             \o normalizeNFKC(SubSeq(s, half + 1, Len(s)))

\* .replace(/[class]/g, to)
ReplaceEach(s, class, to) ==
  [i \in 1..Len(s) |-> IF s[i] \in class THEN to ELSE s[i]]

RECURSIVE DropLeading(_, _)
DropLeading(s, class) ==
  IF s # <<>> /\ Head(s) \in class THEN DropLeading(Tail(s), class) ELSE s

RECURSIVE DropTrailing(_, _)
DropTrailing(s, class) ==
  IF s # <<>> /\ s[Len(s)] \in class
  THEN DropTrailing(SubSeq(s, 1, Len(s) - 1), class)
  ELSE s

RECURSIVE CollapseSpaces(_)
\* .replace(/[^\S\r\n]+/g, " "): computed by halves; a run of spaces that
\* spans both halves leaves one space
CollapseSpaces(s) ==
  IF s = <<>> THEN <<>>
  ELSE IF Len(s) = 1 THEN (IF s[1] \in InlineSpace THEN <<" ">> ELSE s)
  ELSE LET half == Len(s) \div 2
           left == CollapseSpaces(SubSeq(s, 1, half))
           right == CollapseSpaces(SubSeq(s, half + 1, Len(s)))
       IN  IF left[Len(left)] = " " /\ right[1] = " "
           THEN left \o Tail(right)
           ELSE left \o right

\* .replace(/[.,;:!?]+$/g, ""): no m flag, so $ is the end of the string
StripTrailingPunct(s) == DropTrailing(s, TrailingPunct)

\* String.prototype.trim
trim(s) == DropTrailing(DropLeading(s, WhiteSpace), WhiteSpace)

\* the quote and dash rewrites shared by both normalizers of run.mjs
UnifyQuotesAndDashes(s) ==
  ReplaceEach(ReplaceEach(ReplaceEach(s, DoubleQuotes, "\""),
                          SingleQuotes, "'"),
              Dashes, "-")

normalizeAggressive(s) ==
  trim(toLowerCase(StripTrailingPunct(CollapseSpaces(
    UnifyQuotesAndDashes(normalizeNFKC(OrEmpty(s)))))))

\* normalizeForRegex, the lighter normalizer inside checkRegex
normalizeForRegex(s) ==
  trim(CollapseSpaces(UnifyQuotesAndDashes(normalizeNFKC(OrEmpty(s)))))

\* String.prototype.includes
Includes(hay, needle) ==
  \E i \in 0..(Len(hay) - Len(needle)) :
    SubSeq(hay, i + 1, i + Len(needle)) = needle

\* mutant of checkContains: the reference is not normalized
checkContainsRawReference(out, reference) ==
  Includes(normalizeAggressive(out), OrEmpty(reference))

checkContains(out, reference) ==
  Includes(normalizeAggressive(out), normalizeAggressive(reference))

DontKnowPhrase == <<"I", " ", "d", "o", "n", "'", "t", " ", "k", "n", "o", "w">>

checkDontKnow(out) ==
  normalizeAggressive(out) = normalizeAggressive(DontKnowPhrase)

----------------------------------------------------------------------------
(* new RegExp(source, "iu"): the syntax and the matching of the part of the *)
(* regular expression language that checkRegex and the enumerated patterns *)
(* use: literals, ".", "^", "$", "\s", "\b", escaped syntax characters,    *)
(* character classes, groups, and the quantifiers "*", "+", "?".           *)
(* Alternation, braces, look-around and back-references are outside the    *)
(* model; a source that uses them counts as not compiled.                  *)

\* the characters an identity escape may name under the u flag
SyntaxChars == {"^", "$", "\\", ".", "*", "+", "?", "(", ")", "[", "]", "{", "}", "|", "/"}

\* [A-Za-z0-9_], the word characters of \b
WordChars ==
  {UpperCase[i] : i \in 1..Len(UpperCase)} \cup
  {LowerCase[i] : i \in 1..Len(LowerCase)} \cup
  {"0", "1", "2", "3", "4", "5", "6", "7", "8", "9", "_"}

\* what "." does not match without the s flag
LineTerminators == {"\n", "\r", "U+2028", "U+2029"}

Tok(kind, chars) == [k |-> kind, set |-> chars]

Drop(s, n) == SubSeq(s, n + 1, Len(s))

\* the index of the first "]", or 0
ClassEnd(src) ==
  IF \E i \in 2..Len(src) : src[i] = "]"
  THEN CHOOSE i \in 2..Len(src) :
         src[i] = "]" /\ \A j \in 2..(i - 1) : src[j] # "]"
  ELSE 0

RECURSIVE Lex(_)
\* the tokens of a pattern source; a token of kind "error" where the source
\* is no pattern
Lex(src) ==
  IF src = <<>> THEN <<>>
  ELSE LET c == Head(src) IN
    CASE c = "\\" ->
           IF Len(src) < 2 THEN <<Tok("error", {})>>
           ELSE (CASE src[2] = "s" -> <<Tok("set", WhiteSpace)>>
                   [] src[2] = "b" -> <<Tok("wordb", {})>>
                   [] src[2] \in SyntaxChars -> <<Tok("set", {src[2]})>>
                   [] OTHER -> <<Tok("error", {})>>) \o Lex(Drop(src, 2))
      [] c = "(" ->
           IF Len(src) >= 2 /\ src[2] = "?"
           THEN IF Len(src) >= 3 /\ src[3] = ":"
                THEN <<Tok("open", {})>> \o Lex(Drop(src, 3))
                ELSE <<Tok("error", {})>>
           ELSE <<Tok("open", {})>> \o Lex(Tail(src))
      [] c = ")" -> <<Tok("close", {})>> \o Lex(Tail(src))
      [] c = "[" ->
           IF ClassEnd(src) = 0 THEN <<Tok("error", {})>>
           ELSE <<Tok("set", {src[i] : i \in 2..(ClassEnd(src) - 1)})>>
                  \o Lex(Drop(src, ClassEnd(src)))
      [] c \in {"]", "{", "}", "|"} -> <<Tok("error", {})>>
      [] c \in {"*", "+", "?"} -> <<Tok("quant", {c})>> \o Lex(Tail(src))
      [] c = "." -> <<Tok("any", {})>> \o Lex(Tail(src))
      [] c = "^" -> <<Tok("bol", {})>> \o Lex(Tail(src))
      [] c = "$" -> <<Tok("eol", {})>> \o Lex(Tail(src))
      [] OTHER -> <<Tok("set", {c})>> \o Lex(Tail(src))

RECURSIVE ClosesAt(_, _, _)
\* the index of the token that brings the nesting depth d, held before token
\* i, down to 0; 0 when none does
ClosesAt(toks, i, d) ==
  IF i > Len(toks) THEN 0
  ELSE LET e == CASE toks[i].k = "open" -> d + 1
                  [] toks[i].k = "close" -> d - 1
                  [] OTHER -> d
       IN  IF e = 0 /\ toks[i].k = "close" THEN i ELSE ClosesAt(toks, i + 1, e)

RECURSIVE Balanced(_, _, _)
\* every ")" from token i on closes a "(", and every "(" is closed
Balanced(toks, i, d) ==
  IF i > Len(toks) THEN d = 0
  ELSE CASE toks[i].k = "open" -> Balanced(toks, i + 1, d + 1)
         [] toks[i].k = "close" -> d > 0 /\ Balanced(toks, i + 1, d - 1)
         [] OTHER -> Balanced(toks, i + 1, d)

Repeatable(t) == t.k \in {"set", "any", "close"}

\* the early errors of the pattern grammar: an unterminated or unopened group,
\* a quantifier with nothing to repeat
WellFormed(toks) ==
  /\ \A i \in 1..Len(toks) : toks[i].k # "error"
  /\ Balanced(toks, 1, 0)
  /\ \A i \in 1..Len(toks) :
       toks[i].k = "quant" =>
         \/ i > 1 /\ Repeatable(toks[i - 1])
         \/ /\ i > 2
            /\ toks[i].set = {"?"}
            /\ toks[i - 1].k = "quant"
            /\ Repeatable(toks[i - 2])

\* new RegExp(src, "iu"): the compiled pattern is its token sequence
RegExp(src) == Lex(src)

\* new RegExp(src, "iu") throws a SyntaxError
Throws(re) == ~WellFormed(re)

\* the index of the ")" that closes the "(" at the head of toks
GroupEnd(toks) == ClosesAt(toks, 1, 0)

IsWordAt(s, p) == p >= 1 /\ p <= Len(s) /\ s[p] \in WordChars

RECURSIVE Ends(_, _, _)
RECURSIVE Once(_, _, _)
RECURSIVE Star(_, _, _)

\* the positions where a match of one atom or group, begun at a position of P,
\* can end (a position is the number of characters before it)
Once(item, P, s) ==
  LET t == item[1] IN
  CASE t.k = "set" ->
         LET folded == {LowerChar(c) : c \in t.set}
         IN  {p + 1 : p \in {q \in P : q < Len(s) /\ LowerChar(s[q + 1]) \in folded}}
    [] t.k = "any" ->
         {p + 1 : p \in {q \in P : q < Len(s) /\ s[q + 1] \notin LineTerminators}}
    [] t.k = "bol" -> {p \in P : p = 0}
    [] t.k = "eol" -> {p \in P : p = Len(s)}
    [] t.k = "wordb" -> {p \in P : IsWordAt(s, p) # IsWordAt(s, p + 1)}
    [] t.k = "open" -> Ends(SubSeq(item, 2, Len(item) - 1), P, s)
    [] OTHER -> {}

\* zero or more repetitions
Star(item, P, s) ==
  LET more == P \cup Once(item, P, s)
  IN  IF more = P THEN P ELSE Star(item, more, s)

\* the positions where a match of the token sequence, begun at a position of
\* P, can end
Ends(toks, P, s) ==
  IF toks = <<>> \/ P = {} THEN P
  ELSE LET n == IF toks[1].k = "open" THEN GroupEnd(toks) ELSE 1
           item == SubSeq(toks, 1, n)
           q == IF Len(toks) > n /\ toks[n + 1].k = "quant"
                THEN toks[n + 1].set ELSE {}
           lazy == q # {} /\ Len(toks) > n + 1 /\ toks[n + 2].k = "quant"
           used == n + (IF q = {} THEN 0 ELSE 1) + (IF lazy THEN 1 ELSE 0)
           after == CASE q = {"*"} -> Star(item, P, s)
                      [] q = {"+"} -> Star(item, Once(item, P, s), s)
                      [] q = {"?"} -> P \cup Once(item, P, s)
                      [] OTHER -> Once(item, P, s)
       IN  Ends(Drop(toks, used), after, s)

\* RegExp.prototype.test: a match may begin anywhere
Test(re, s) == Ends(re, 0..Len(s), s) # {}

RegExpThrows(src) == Throws(RegExp(src))

RegExpTest(src, s) == Test(RegExp(src), s)

----------------------------------------------------------------------------
(* checkRegex of run.mjs *)

\* String(pattern)
StringOf(pattern) ==
  IF pattern = Null THEN <<"u", "n", "d", "e", "f", "i", "n", "e", "d">>
  ELSE pattern

\* /^\s*\.\*/.test(raw) && /\.\*\s*$/.test(raw)
hasWildcardEdges(raw) ==
  LET lead == DropLeading(raw, WhiteSpace)
      tail == DropTrailing(raw, WhiteSpace)
  IN  /\ Len(lead) >= 2 /\ lead[1] = "." /\ lead[2] = "*"
      /\ Len(tail) >= 2 /\ tail[Len(tail) - 1] = "." /\ tail[Len(tail)] = "*"

\* /\^|\$/.test(raw)
hasAnchor(raw) == \E i \in 1..Len(raw) : raw[i] \in {"^", "$"}

\* raw.replace(/^\^/, "").replace(/\$$/, "")
StripAnchors(raw) ==
  LET a == IF raw # <<>> /\ raw[1] = "^" THEN Tail(raw) ELSE raw
  IN  IF a # <<>> /\ a[Len(a)] = "$" THEN SubSeq(a, 1, Len(a) - 1) ELSE a

\* \s*[.,;:!?]?$
PunctTail == <<"\\", "s", "*", "[", ".", ",", ";", ":", "!", "?", "]", "?", "$">>

\* `^(?:${core})\\s*[.,;:!?]?$`
exactish(core) == <<"^", "(", "?", ":">> \o core \o <<")">> \o PunctTail

\* `\\b(?:${core})\\b\\s*[.,;:!?]?$`
tailBounded(core) ==
  <<"\\", "b", "(", "?", ":">> \o core \o <<")", "\\", "b">> \o PunctTail

Verdict(p, e) == [pass |-> p, error |-> e]

\* the condition of the first tier
TriesAsAuthored(raw) == hasWildcardEdges(raw) \/ hasAnchor(raw)

checkRegex(out, pattern) ==
  LET normalizedOut == normalizeForRegex(trim(OrEmpty(out)))
      raw == StringOf(pattern)
      asAuthored == RegExp(raw)
      core == StripAnchors(raw)
      exact == RegExp(exactish(core))
      tail == RegExp(tailBounded(core))
  IN  IF TriesAsAuthored(raw) /\ Throws(asAuthored)
        THEN Verdict(FALSE, "BAD_REGEX")
      ELSE IF TriesAsAuthored(raw) /\ Test(asAuthored, normalizedOut)
        THEN Verdict(TRUE, JsNull)
      ELSE IF Throws(exact)
        THEN Verdict(FALSE, "BAD_REGEX")
      ELSE IF Test(exact, normalizedOut)
        THEN Verdict(TRUE, JsNull)
      ELSE IF Throws(tail)
        THEN Verdict(FALSE, "BAD_REGEX")
      ELSE IF Test(tail, normalizedOut)
        THEN Verdict(TRUE, JsNull)
      ELSE Verdict(FALSE, JsNull)

----------------------------------------------------------------------------
(* eval/run.mjs: the enumerated arguments of the check functions *)

\* the characters of the enumerated outputs and references
CheckChars == {"a", " ", ".", "\n"}

CheckStrings == SeqsUpTo(CheckChars, MaxLen) \cup {Null}

TheAnswerIs42 ==
  <<"T", "h", "e", " ", "a", "n", "s", "w", "e", "r", " ", "i", "s", " ",
    "4", "2", ".">>

TheAnswerIsFortyTwo ==
  <<"T", "h", "e", " ", "a", "n", "s", "w", "e", "r", " ", "i", "s", " ",
    "f", "o", "r", "t", "y", "-", "t", "w", "o", ".">>

IDoNotKnow ==
  <<"I", " ", "d", "o", " ", "n", "o", "t", " ", "k", "n", "o", "w">>

ItIsAbout45Degrees ==
  <<"I", "t", " ", "i", "s", " ", "a", "b", "o", "u", "t", " ", "4", "5",
    " ", "d", "e", "g", "r", "e", "e", "s", ".">>

Anchored45Degrees ==
  <<"^", "4", "5", " ", "d", "e", "g", "r", "e", "e", "s", "$">>

Wildcard45Degrees ==
  <<".", "*", "4", "5", " ", "d", "e", "g", "r", "e", "e", "s", ".", "*">>

\* what may follow the phrase in an enumerated output of the dontknow check
DontKnowTails == SeqsUpTo({".", "!", " ", "a"}, MaxLen)

DontKnowOutputs ==
  {head \o phrase \o tail :
     head \in {<<>>, <<" ">>},
     phrase \in {DontKnowPhrase, IDoNotKnow},
     tail \in DontKnowTails}

RegexOutputs ==
  {<<"a">>, <<"a", " ", "b">>, <<"b", " ", "a">>, <<"$", "a", " ", "b">>,
   <<"A", ".">>, ItIsAbout45Degrees}

RegexPatterns ==
  SeqsUpTo({"a", "\\", "$", "^", ".", "*"}, MaxLen)
  \cup {Anchored45Degrees, Wildcard45Degrees}

\* the enumerated result lists of the hit checker: snippets with a text, and
\* one without
HitResults ==
  SeqsUpTo([text : {Null, <<"a">>, <<"b">>, <<"A", "\t", " ", "b">>}], MaxItems)

HitExpected == {Null, <<>>, <<"a">>, <<"b", "a">>, <<"a", " ", "B">>}

CheckIdle ==
  /\ chkType = "contains"
  /\ chkOut = <<>>
  /\ chkRef = <<>>
  /\ chkRes = Verdict(FALSE, JsNull)
  /\ chkDone = FALSE

(* The normalizer applied repeatedly to an enumerated input *)

NormAlphabet == {"a", "A", ".", "?", " ", "\n", "U+201C", "U+2014", "U+2026"}

NormInputs == SeqsUpTo(NormAlphabet, MaxLen) \cup {Null}

NormIdle ==
  /\ normInput = <<>>
  /\ normPrev = <<>>
  /\ normCur = <<>>
  /\ normSteps = 0

CmpIdle ==
  /\ cmpPc = "idle"
  /\ runA = <<>>
  /\ runB = <<>>
  /\ regressions = <<>>
  /\ improvements = <<>>
  /\ errorsFixed = <<>>
  /\ errorsNew = <<>>

RunIdle ==
  /\ mode = "ollama"
  /\ golden = [kind |-> "array", rows |-> <<>>]
  /\ bodies = {}
  /\ pc = "idle"
  /\ health = "none"
  /\ warmup = "none"
  /\ idx = 1
  /\ calls = <<>>
  /\ responses = <<>>
  /\ verdicts = {}
  /\ items = <<>>
  /\ passed = 0
  /\ archive = <<>>

SelIdle ==
  /\ runsDir = <<>>
  /\ prevArg = [kind |-> "absent"]
  /\ selPc = "idle"
  /\ aPath = "undefined"
  /\ bPath = "undefined"

NoFiles == [p \in {} |-> <<>>]

HistIdle ==
  /\ runFiles = NoFiles
  /\ latest = NoFiles

RestIdle == SelIdle /\ HistIdle /\ CheckIdle

InitNorm ==
  /\ CmpIdle
  /\ RunIdle
  /\ RestIdle
  /\ normInput \in NormInputs
  /\ normPrev = normInput
  /\ normCur = normInput
  /\ normSteps = 0

Normalize ==
  /\ normSteps < 2
  /\ normPrev' = normCur
  /\ normCur' = normalizeAggressive(normCur)
  /\ normSteps' = normSteps + 1
  /\ UNCHANGED normInput
  /\ UNCHANGED cmpVars
  /\ UNCHANGED runVars
  /\ UNCHANGED restVars

NextNorm == Normalize

SpecNorm == InitNorm /\ [][NextNorm]_vars

\* C1: normalizeAggressive is idempotent: normalizing an already normalized
\* string (of any input, null included) returns it unchanged.
C1_NormalizeIdempotent == normSteps = 2 => normCur = normPrev

----------------------------------------------------------------------------
(* eval/compare.mjs: the run comparator *)

\* the case ids of the enumerated archives
CaseIds == {"3", "7"}

\* The items of the enumerated archive files.  The comparator reads pass and
\* error for their truthiness only, so one error code stands for both.
ArchiveItems ==
  [id : CaseIds, pass : BOOLEAN, error : {JsNull, "PIPELINE_ERROR"}]

ArchiveFiles == SeqsUpTo(ArchiveItems, MaxItems)

Contains(seq, x) == \E i \in 1..Len(seq) : seq[i] = x

RECURSIVE MapKeys(_)
\* the keys of new Map(j.items.map(i => [i.id, i])), in insertion order
MapKeys(entries) ==
  IF entries = <<>> THEN <<>>
  ELSE LET init == MapKeys(SubSeq(entries, 1, Len(entries) - 1))
           k == entries[Len(entries)].id
       IN  IF Contains(init, k) THEN init ELSE Append(init, k)

\* loadRun: a later entry of the same id replaces an earlier one
loadRun(entries) ==
  [keys |-> MapKeys(entries),
   vals |-> [k \in {entries[i].id : i \in 1..Len(entries)} |->
              entries[CHOOSE i \in 1..Len(entries) :
                      /\ entries[i].id = k
                      /\ \A j \in (i + 1)..Len(entries) : entries[j].id # k]]]

\* Map.prototype.get
MapGet(m, k) == IF k \in DOMAIN m.vals THEN m.vals[k] ELSE Undefined

RECURSIVE AppendNew(_, _)
AppendNew(seq, more) ==
  IF more = <<>> THEN seq
  ELSE AppendNew(IF Contains(seq, Head(more)) THEN seq ELSE Append(seq, Head(more)),
                 Tail(more))

\* new Set([...A.items.keys(), ...B.items.keys()]), in iteration order
UnionIds(A, B) == AppendNew(A.keys, B.keys)

\* a.error / b.error as a condition
HasError(item) == item.error # JsNull

\* mutant of IsPass: the pass flag alone decides
IsPassIgnoringError(item) == item.pass

\* mutant of PassFlag: an item without pass is read through its hit
PassFlagOrHit(item) == IF "pass" \in DOMAIN item THEN item.pass ELSE item.hit

\* !!a.pass: undefined, and so false, for an item that has no pass
PassFlag(item) == IF "pass" \in DOMAIN item THEN item.pass ELSE FALSE

\* !!a.pass && !a.error
IsPass(item) == PassFlag(item) /\ ~HasError(item)

\* mutant of SkipId: only the old run's side is tested
SkipIdMissingInAOnly(a, b) == a = Undefined

\* if (!a || !b) continue
SkipId(a, b) == a = Undefined \/ b = Undefined

IsErrorFixed(a, b) == HasError(a) /\ ~HasError(b) /\ IsPass(b)
IsErrorNew(a, b) == ~HasError(a) /\ HasError(b)
\* mutant of IsRegression: the two runs swapped
IsRegressionSwapped(a, b) == ~IsPass(a) /\ IsPass(b)

IsRegression(a, b) == IsPass(a) /\ ~IsPass(b)

\* mutant of IsImprovement: the pass flags alone decide
IsImprovementByFlag(a, b) == ~a.pass /\ b.pass

IsImprovement(a, b) == ~IsPass(a) /\ IsPass(b)

PushIf(cond, seq, x) == IF cond THEN Append(seq, x) ELSE seq

\* one iteration of the comparison loop on an id present on both sides
Classify(acc, id, a, b) ==
  [acc EXCEPT !.errorsFixed = PushIf(IsErrorFixed(a, b), @, id),
              !.errorsNew = PushIf(IsErrorNew(a, b), @, id),
              !.regressions = PushIf(IsRegression(a, b), @, id),
              !.improvements = PushIf(IsImprovement(a, b), @, id)]

RECURSIVE CompareLoop(_, _, _, _)
\* for (const id of ids) { ... }: reading a property of undefined raises a
\* TypeError, which ends the script
CompareLoop(ids, A, B, acc) ==
  IF ids = <<>> THEN acc
  ELSE LET id == Head(ids)
           a == MapGet(A, id)
           b == MapGet(B, id)
       IN  IF SkipId(a, b) THEN CompareLoop(Tail(ids), A, B, acc)
           ELSE IF a = Undefined \/ b = Undefined
                THEN [acc EXCEPT !.raised = TRUE]
                ELSE CompareLoop(Tail(ids), A, B, Classify(acc, id, a, b))

EmptyResult ==
  [regressions |-> <<>>, improvements |-> <<>>, errorsFixed |-> <<>>,
   errorsNew |-> <<>>, raised |-> FALSE]

InitCompare ==
  /\ NormIdle
  /\ RunIdle
  /\ RestIdle
  /\ cmpPc = "start"
  /\ runA \in ArchiveFiles
  /\ runB \in ArchiveFiles
  /\ regressions = <<>>
  /\ improvements = <<>>
  /\ errorsFixed = <<>>
  /\ errorsNew = <<>>

\* the script from loadRun to the report
CompareRuns ==
  /\ cmpPc = "start"
  /\ LET A == loadRun(runA)
         B == loadRun(runB)
         r == CompareLoop(UnionIds(A, B), A, B, EmptyResult)
     IN  /\ regressions' = r.regressions
         /\ improvements' = r.improvements
         /\ errorsFixed' = r.errorsFixed
         /\ errorsNew' = r.errorsNew
         /\ cmpPc' = IF r.raised THEN "raised" ELSE "done"
  /\ UNCHANGED <<runA, runB>>
  /\ UNCHANGED normVars
  /\ UNCHANGED runVars
  /\ UNCHANGED restVars

NextCompare == CompareRuns

SpecCompare == InitCompare /\ [][NextCompare]_vars

(* Properties of the comparator *)

CompareEnded == cmpPc \in {"done", "raised"}

\* the items an archive file records under an id
ItemsOf(run, id) == {run[i] : i \in {j \in 1..Len(run) : run[j].id = id}}

InBoth(id) == ItemsOf(runA, id) # {} /\ ItemsOf(runB, id) # {}

PassesCleanly(run, id) ==
  /\ ItemsOf(run, id) # {}
  /\ \A it \in ItemsOf(run, id) : it.pass /\ it.error = JsNull

FailsWithoutError(run, id) ==
  /\ ItemsOf(run, id) # {}
  /\ \A it \in ItemsOf(run, id) : ~it.pass /\ it.error = JsNull

HasRecordedError(run, id) ==
  /\ ItemsOf(run, id) # {}
  /\ \A it \in ItemsOf(run, id) : it.error # JsNull

\* C2: an id that passes in run A (pass true, no error) and fails in run B
\* with no recorded error is in regressions and in none of improvements,
\* errorsNew, errorsFixed.
C2_RegressionOnly ==
  CompareEnded =>
    \A id \in CaseIds :
      PassesCleanly(runA, id) /\ FailsWithoutError(runB, id) =>
        /\ cmpPc = "done"
        /\ Contains(regressions, id)
        /\ ~Contains(improvements, id)
        /\ ~Contains(errorsNew, id)
        /\ ~Contains(errorsFixed, id)

C2_Witness ==
  /\ cmpPc = "done"
  /\ PassesCleanly(runA, "3")
  /\ FailsWithoutError(runB, "3")
  /\ Contains(regressions, "3")

\* C3: an id with a recorded error in run A that passes without error in run
\* B is in improvements and in errorsFixed, and in neither regressions nor
\* errorsNew; an item with a recorded error never counts as passing, whatever
\* its pass flag: it makes no regression on side A and no improvement or
\* fixed error on side B.
C3_ErrorFixedIsImprovement ==
  CompareEnded =>
    \A id \in CaseIds :
      /\ HasRecordedError(runA, id) /\ PassesCleanly(runB, id) =>
            /\ cmpPc = "done"
            /\ Contains(improvements, id)
            /\ Contains(errorsFixed, id)
            /\ ~Contains(regressions, id)
            /\ ~Contains(errorsNew, id)
      /\ HasRecordedError(runA, id) /\ InBoth(id) => ~Contains(regressions, id)
      /\ HasRecordedError(runB, id) /\ InBoth(id) =>
            ~Contains(improvements, id) /\ ~Contains(errorsFixed, id)

C3_Witness ==
  /\ cmpPc = "done"
  /\ HasRecordedError(runA, "7")
  /\ \E it \in ItemsOf(runA, "7") : it.pass
  /\ PassesCleanly(runB, "7")
  /\ Contains(improvements, "7")
  /\ Contains(errorsFixed, "7")

\* C4: an id that occurs in only one of the two archives is in none of the
\* four result arrays, and the comparison does not raise.
C4_OnlyCommonIdsClassified ==
  CompareEnded =>
    /\ cmpPc # "raised"
    /\ \A id \in CaseIds :
         ~InBoth(id) =>
           /\ ~Contains(regressions, id)
           /\ ~Contains(improvements, id)
           /\ ~Contains(errorsNew, id)
           /\ ~Contains(errorsFixed, id)

C4_Witness ==
  /\ cmpPc = "done"
  /\ ItemsOf(runA, "3") # {}
  /\ ItemsOf(runB, "3") = {}
  /\ InBoth("7")
  /\ Contains(regressions, "7")

\* the item the comparator holds for an id: the last one the file records
LoadedItem(run, id) ==
  run[CHOOSE i \in 1..Len(run) :
        /\ run[i].id = id
        /\ \A j \in (i + 1)..Len(run) : run[j].id # id]

\* C21: for any two archives, regressions and improvements are disjoint,
\* errorsFixed is a subset of improvements, errorsNew is disjoint from
\* improvements and from errorsFixed, and an id is in both errorsNew and
\* regressions exactly when it is in both runs, A passed without error and B
\* has an error.
C21_ResultSetsConsistent ==
  CompareEnded =>
    \A id \in CaseIds :
      /\ ~(Contains(regressions, id) /\ Contains(improvements, id))
      /\ Contains(errorsFixed, id) => Contains(improvements, id)
      /\ Contains(errorsNew, id) =>
            ~Contains(improvements, id) /\ ~Contains(errorsFixed, id)
      /\ Contains(errorsNew, id) /\ Contains(regressions, id) <=>
            /\ InBoth(id)
            /\ LoadedItem(runA, id).pass
            /\ LoadedItem(runA, id).error = JsNull
            /\ LoadedItem(runB, id).error # JsNull

\* one comparison with an id that is a new error and a regression at once and
\* another that is a fixed error and an improvement
C21_Witness ==
  /\ cmpPc = "done"
  /\ Contains(errorsNew, "3") /\ Contains(regressions, "3")
  /\ Contains(errorsFixed, "7") /\ Contains(improvements, "7")
  /\ LoadedItem(runA, "3").pass /\ LoadedItem(runB, "3").error # JsNull

(* The comparator on archives of the retrieval executor *)

\* The items retrieval_eval.mjs archives: hit and no pass; an item with an
\* error has hit = false.
RetrievalArchiveItems ==
  {it \in [id : CaseIds, hit : BOOLEAN, error : {JsNull, "PIPELINE_ERROR"}] :
     it.error # JsNull => ~it.hit}

RetrievalArchiveFiles == SeqsUpTo(RetrievalArchiveItems, MaxItems)

InitCompareRetrieval ==
  /\ NormIdle
  /\ RunIdle
  /\ RestIdle
  /\ cmpPc = "start"
  /\ runA \in RetrievalArchiveFiles
  /\ runB \in RetrievalArchiveFiles
  /\ regressions = <<>>
  /\ improvements = <<>>
  /\ errorsFixed = <<>>
  /\ errorsNew = <<>>

SpecCompareRetrieval == InitCompareRetrieval /\ [][NextCompare]_vars

\* C23: given two archives of the retrieval executor (items carry hit and no
\* pass), the comparator ends with regressions, improvements and errorsFixed
\* empty, however the hit values changed between the runs; errorsNew holds
\* the common ids without an error in A and with one in B.
C23_RetrievalNeverClassified ==
  CompareEnded =>
    /\ cmpPc = "done"
    /\ regressions = <<>>
    /\ improvements = <<>>
    /\ errorsFixed = <<>>
    /\ \A id \in CaseIds :
         Contains(errorsNew, id) <=>
           /\ InBoth(id)
           /\ LoadedItem(runA, id).error = JsNull
           /\ LoadedItem(runB, id).error # JsNull

\* a comparison in which the hit of one id went from true to false without
\* an error on either side and the other id, a hit in A, has an error in B:
\* the report holds the new error and nothing else
C23_Witness ==
  /\ cmpPc = "done"
  /\ InBoth("3")
  /\ LoadedItem(runA, "3").hit /\ ~LoadedItem(runB, "3").hit
  /\ LoadedItem(runB, "3").error = JsNull
  /\ InBoth("7")
  /\ LoadedItem(runA, "7").hit
  /\ errorsNew = <<"7">>
  /\ regressions = <<>>

----------------------------------------------------------------------------
(* eval/retrieval_adapter.mjs: the hit checker *)

\* normalizeText, the normalizer of the hit checker
normalizeText(s) == trim(toLowerCase(CollapseSpaces(normalizeNFKC(OrEmpty(s)))))

\* mutant of checkRetrievalHit: only the first result is looked at
checkRetrievalHitFirstOnly(results, expectedSubstring) ==
  /\ results # <<>>
  /\ Includes(normalizeText(results[1].text), normalizeText(expectedSubstring))

\* checkRetrievalHit: results is a sequence of records with a text field
checkRetrievalHit(results, expectedSubstring) ==
  \E i \in 1..Len(results) :
    Includes(normalizeText(results[i].text), normalizeText(expectedSubstring))

----------------------------------------------------------------------------
(* The check functions, one application each *)

InitCheck ==
  /\ NormIdle
  /\ CmpIdle
  /\ RunIdle
  /\ SelIdle
  /\ HistIdle
  /\ \/ /\ chkType = "contains"
        /\ chkOut \in CheckStrings \cup {TheAnswerIs42, TheAnswerIsFortyTwo}
        /\ chkRef \in CheckStrings \cup {<<"4", "2">>}
     \/ /\ chkType = "dontknow"
        /\ chkOut \in DontKnowOutputs
        /\ chkRef = Null
     \/ /\ chkType = "regex"
        /\ chkOut \in RegexOutputs
        /\ chkRef \in RegexPatterns
     \/ /\ chkType = "hit"
        /\ chkOut \in HitResults
        /\ chkRef \in HitExpected
  /\ chkRes = Verdict(FALSE, JsNull)
  /\ chkDone = FALSE

CheckFrame ==
  /\ chkDone' = TRUE
  /\ UNCHANGED <<chkType, chkOut, chkRef>>
  /\ UNCHANGED normVars
  /\ UNCHANGED cmpVars
  /\ UNCHANGED runVars
  /\ UNCHANGED selVars
  /\ UNCHANGED histVars

\* pass = checkContains(actual, t.reference)
CheckContains ==
  /\ ~chkDone
  /\ chkType = "contains"
  /\ chkRes' = Verdict(checkContains(chkOut, chkRef), JsNull)
  /\ CheckFrame

\* pass = checkDontKnow(actual)
CheckDontKnow ==
  /\ ~chkDone
  /\ chkType = "dontknow"
  /\ chkRes' = Verdict(checkDontKnow(chkOut), JsNull)
  /\ CheckFrame

\* res = checkRegex(actual, t.reference)
CheckRegex ==
  /\ ~chkDone
  /\ chkType = "regex"
  /\ chkRes' = checkRegex(chkOut, chkRef)
  /\ CheckFrame

\* hit = checkRetrievalHit(results, expectedSubstring)
CheckHit ==
  /\ ~chkDone
  /\ chkType = "hit"
  /\ chkRes' = Verdict(checkRetrievalHit(chkOut, chkRef), JsNull)
  /\ CheckFrame

NextCheck == CheckContains \/ CheckDontKnow \/ CheckRegex \/ CheckHit

SpecCheck == InitCheck /\ [][NextCheck]_vars

----------------------------------------------------------------------------
(* eval/compare.mjs: the choice of the two runs when no path is given *)

\* a JavaScript number: NaN, or an integer
NaN == [nan |-> TRUE, n |-> 0]
Num(n) == [nan |-> FALSE, n |-> n]

\* the names of the enumerated files, without their extension
StemNames == <<"r1", "r2", "r3", "r4", "r5", "r6">>
Stems == {StemNames[i] : i \in 1..MaxRuns}

\* the enumerated modification times: few enough for ties
Mtimes == {1, 2}

DirEntries == [name : Stems, ext : {"json", "txt"}, mtime : Mtimes]

\* eval/runs does not exist
NoDir == <<[name |-> "<no directory>", ext |-> "", mtime |-> 0]>>

\* the enumerated directories: no two files of one name
Directories ==
  {d \in SeqsUpTo(DirEntries, MaxRuns) :
     \A i, j \in 1..Len(d) : i # j => d[i].name # d[j].name}
  \cup {NoDir}

\* the enumerated values after --prev: none, a text that is no number, an integer
PrevArgs ==
  {[kind |-> "absent"], [kind |-> "text"]}
  \cup [kind : {"int"}, n : (-1)..(MaxRuns + 1)]

\* Number(args[++i])
NumberOf(arg) == IF arg.kind = "int" THEN Num(arg.n) ELSE NaN

\* Math.max(1, x): NaN when x is NaN
MaxWithOne(x) == IF x.nan THEN NaN ELSE IF x.n < 1 THEN Num(1) ELSE x

\* the value of prev after the argument loop
Prev(arg) == IF arg.kind = "absent" THEN Num(1) ELSE MaxWithOne(NumberOf(arg))

\* mutant of ByMtime: oldest first
ByMtimeAscending(a, b) == a.mtime - b.mtime

\* (a, b) => b.mtime - a.mtime
ByMtime(a, b) == b.mtime - a.mtime

RECURSIVE InsertSorted(_, _)
\* x put after every element that does not compare greater than it
InsertSorted(sorted, x) ==
  IF sorted = <<>> THEN <<x>>
  ELSE IF ByMtime(Head(sorted), x) > 0
       THEN <<x>> \o sorted
       ELSE <<Head(sorted)>> \o InsertSorted(Tail(sorted), x)

RECURSIVE Sort(_)
\* Array.prototype.sort, which is stable
Sort(seq) ==
  IF seq = <<>> THEN <<>>
  ELSE InsertSorted(Sort(SubSeq(seq, 1, Len(seq) - 1)), seq[Len(seq)])

IsJson(f) == f.ext = "json"

listRuns(dir) == IF dir = NoDir THEN <<>> ELSE Sort(SelectSeq(dir, IsJson))

\* runs[prev]: undefined when prev is NaN or no index of runs
ElementAt(runs, prev) ==
  IF ~prev.nan /\ prev.n < Len(runs) THEN runs[prev.n + 1] ELSE Undefined

\* runs[prev] ? runs[prev].path : runs[1].path
OldRun(runs, prev) ==
  IF ElementAt(runs, prev) # Undefined THEN ElementAt(runs, prev).name
  ELSE runs[2].name

InitSelect ==
  /\ NormIdle
  /\ CmpIdle
  /\ RunIdle
  /\ HistIdle
  /\ CheckIdle
  /\ runsDir \in Directories
  /\ prevArg \in PrevArgs
  /\ selPc = "start"
  /\ aPath = "undefined"
  /\ bPath = "undefined"

\* the script from the argument loop to the choice of aPath and bPath, run
\* with no path among its arguments
AutoPick ==
  /\ selPc = "start"
  /\ LET runs == listRuns(runsDir)
     IN  IF Len(runs) < 2
         THEN /\ selPc' = "exited"
              /\ UNCHANGED <<aPath, bPath>>
         ELSE /\ bPath' = runs[1].name
              /\ aPath' = OldRun(runs, Prev(prevArg))
              /\ selPc' = "picked"
  /\ UNCHANGED <<runsDir, prevArg>>
  /\ UNCHANGED normVars
  /\ UNCHANGED cmpVars
  /\ UNCHANGED runVars
  /\ UNCHANGED histVars
  /\ UNCHANGED chkVars

NextSelect == AutoPick

SpecSelect == InitSelect /\ [][NextSelect]_vars

(* Properties of the choice *)

\* the archived runs: the .json files of eval/runs
ArchivedRuns ==
  IF runsDir = NoDir THEN {}
  ELSE {runsDir[i] : i \in {j \in 1..Len(runsDir) : runsDir[j].ext = "json"}}

ArchivedRun(name) == CHOOSE f \in ArchivedRuns : f.name = name

\* the configured N: the value after --prev when it is an integer >= 1, and
\* the default 1 when --prev is not given
ConfiguredN ==
  IF prevArg.kind = "absent" THEN 1 ELSE prevArg.n

NIsConfigured ==
  prevArg.kind = "absent" \/ (prevArg.kind = "int" /\ prevArg.n >= 1)

\* the file can stand at position n (from 0) of a newest-first order of the
\* archived runs
IsNthNewest(name, n) ==
  /\ \E f \in ArchivedRuns : f.name = name
  /\ LET f == ArchivedRun(name)
     IN  /\ Cardinality({g \in ArchivedRuns : g.mtime > f.mtime}) <= n
         /\ Cardinality({g \in ArchivedRuns \ {f} : g.mtime >= f.mtime}) >= n

\* C11 as stated: with no run paths given, the newest archived run is the new
\* run and the N-th previous one is the old run, for every configured N >= 1;
\* with fewer than two archived runs the script fails and compares nothing.
C11_PicksNthPrevious ==
  /\ selPc = "picked" /\ NIsConfigured =>
       /\ IsNthNewest(bPath, 0)
       /\ IsNthNewest(aPath, ConfiguredN)
  /\ selPc # "start" =>
       (selPc = "exited" <=> Cardinality(ArchivedRuns) < 2)

\* C11 amended: the old run is the N-th previous one when N is less than the
\* number of archived runs, and the immediately preceding one otherwise.
C11_PicksNthPreviousOrPrevious ==
  /\ selPc = "picked" /\ NIsConfigured =>
       /\ IsNthNewest(bPath, 0)
       /\ IsNthNewest(aPath, IF ConfiguredN < Cardinality(ArchivedRuns)
                             THEN ConfiguredN ELSE 1)
       /\ aPath # bPath
  /\ selPc # "start" =>
       (selPc = "exited" <=> Cardinality(ArchivedRuns) < 2)
  /\ selPc = "exited" => aPath = "undefined" /\ bPath = "undefined"

\* three archived runs of distinct ranks at the ends, --prev 2, and the
\* oldest chosen as the old run
C11_Witness ==
  /\ selPc = "picked"
  /\ prevArg = [kind |-> "int", n |-> 2]
  /\ Cardinality(ArchivedRuns) = 3
  /\ IsNthNewest(aPath, 2)
  /\ ~IsNthNewest(aPath, 1)
  /\ IsNthNewest(bPath, 0)

----------------------------------------------------------------------------
(* eval/run.mjs and eval/retrieval_eval.mjs: the files a completed run writes *)

\* the enumerated start dates, started_at.slice(0, 10)
StartDates == {"2025-01-01", "2025-01-02"}

\* the enumerated values of Math.floor(Math.random() * 1e6), padded to six digits
RandomSuffixes == {"000000", "000001"}

\* the enumerated results of a completed run: the counter and the items
RunOutcomes ==
  {[passed |-> 1, items |-> <<[id |-> "3", pass |-> TRUE, error |-> JsNull]>>],
   [passed |-> 0, items |-> <<[id |-> "3", pass |-> FALSE, error |-> JsNull]>>]}

\* `${started_at.slice(0, 10)}--${...padStart(6, "0")}`
RunId(date, random) == [date |-> date, suffix |-> random]

\* `eval/runs/${summary.run_id}.json`, `eval/runs/retrieval_${summary.run_id}.json`
ArchivePath(m, run_id) ==
  [prefix |-> IF m = "retrieval" THEN "retrieval_" ELSE "", run_id |-> run_id]

\* fs.writeFileSync(path, data): the file is created, or its content replaced
WriteFileSync(files, path, data) ==
  [p \in DOMAIN files \cup {path} |-> IF p = path THEN data ELSE files[p]]

InitHistory ==
  /\ NormIdle
  /\ CmpIdle
  /\ RunIdle
  /\ SelIdle
  /\ CheckIdle
  /\ runFiles = NoFiles
  /\ latest = NoFiles

\* a run that reaches the end of its loop: the summary and the two writes
CompleteRun(m) ==
  \E date \in StartDates, random \in RandomSuffixes, outcome \in RunOutcomes :
    LET summary == [run_id |-> RunId(date, random),
                    total |-> Len(outcome.items),
                    passed |-> outcome.passed]
        data == [summary |-> summary, items |-> outcome.items]
    IN  /\ latest' = WriteFileSync(latest, IF m = "retrieval"
                                           THEN "eval/retrieval_results.json"
                                           ELSE "eval/results.json", data)
        /\ runFiles' = WriteFileSync(runFiles, ArchivePath(m, summary.run_id), data)
        /\ UNCHANGED normVars
        /\ UNCHANGED cmpVars
        /\ UNCHANGED runVars
        /\ UNCHANGED selVars
        /\ UNCHANGED chkVars

GenCompleteRun == CompleteRun("ollama")

RetCompleteRun == CompleteRun("retrieval")

NextHistory == GenCompleteRun \/ RetCompleteRun

SpecHistory == InitHistory /\ [][NextHistory]_vars

\* C12: an archive file of eval/runs, once written, is never rewritten: it
\* stays, and holds the summary and items of the run that wrote it, whatever
\* runs complete later.
C12_ArchiveNeverRewritten ==
  [][\A p \in DOMAIN runFiles :
       p \in DOMAIN runFiles' /\ runFiles'[p] = runFiles[p]]_vars

----------------------------------------------------------------------------
(* eval/run.mjs and eval/retrieval_eval.mjs: the run executors *)

\* actual.slice(0, 8192)
TruncateAt == 8192

Truncate(actual) ==
  IF Len(actual) > TruncateAt THEN SubSeq(actual, 1, TruncateAt) ELSE actual

\* the keys readGoldenJSON requires of every row
RequiredKeys(m) ==
  IF m = "retrieval" THEN {"id", "question", "reference"}
  ELSE {"id", "question", "context", "reference", "eval_type"}

\* readGoldenJSON throws: the value is no array, or a row lacks a key
readGoldenJSONThrows(g, m) ==
  \/ g.kind # "array"
  \/ \E i \in 1..Len(g.rows) : ~(RequiredKeys(m) \subseteq DOMAIN g.rows[i])

\* t.id, t.reference, and t.eval_type || "contains", of a row that may lack them
RowId(t) == IF "id" \in DOMAIN t THEN t.id ELSE "undefined"
RowReference(t) == IF "reference" \in DOMAIN t THEN t.reference ELSE Null
RowEvalType(t) == IF "eval_type" \in DOMAIN t THEN t.eval_type ELSE "contains"

Row(id, reference, evalType) ==
  [id |-> id, question |-> "q", context |-> "c", reference |-> reference,
   eval_type |-> evalType]

Without(row, key) == [k \in DOMAIN row \ {key} |-> row[k]]

\* a character of a string: every property read of it gives undefined
CharRow == [char |-> "x"]

\* a character outside the basic plane: one step of for...of, two code units
AstralRow == [char |-> "U+1F600"]

\* what a character adds to the length of its string
CodeUnits(row) == IF row = AstralRow THEN 2 ELSE 1

RECURSIVE StringLength(_)
StringLength(rows) ==
  IF rows = <<>> THEN 0 ELSE CodeUnits(Head(rows)) + StringLength(Tail(rows))

\* tests.length: the elements of an array, the code units of a string
TestsLength(g) == IF g.kind = "string" THEN StringLength(g.rows) ELSE Len(g.rows)

\* the enumerated rows: every eval type, a valid pattern, two patterns that
\* are no regular expressions, and a row short of each key that both
\* executors' readGoldenJSON require, in turn
GoldenRows ==
  {Row("3", <<"a">>, "contains"),
   Row("7", <<"a">>, "dontknow"),
   Row("3", <<"a">>, "regex"),
   Row("7", <<"(", "a">>, "regex"),
   Row("3", <<")", "(">>, "regex")}
  \cup {Without(Row("7", <<"a">>, "contains"), k) : k \in RequiredKeys("retrieval")}

\* the enumerated golden files: what JSON.parse makes of the file's text.  The
\* executors read a string only through its length and its characters.
GoldenFiles ==
  [kind : {"array"}, rows : SeqsUpTo(GoldenRows, MaxCases)]
  \cup [kind : {"string"}, rows : SeqsUpTo({CharRow, AstralRow}, MaxCases) \ {<<>>}]
  \cup [kind : {"object", "number", "null", "malformed"}, rows : {<<>>}]

Modes == {"ollama", "api", "retrieval"}

\* the enumerated answers of the generation endpoint
Outputs == {<<"A", ".">>, DontKnowPhrase \o <<".">>}

\* the enumerated result lists of the retrieval endpoint
RetrievedLists == {<<>>, <<[text |-> <<"b">>], [text |-> <<"A", ".">>]>>}

\* What a pipeline call comes to: the request is rejected, the response has a
\* non-success status (its body is not read), or it succeeds with a body.
Responses(m) ==
  {[kind |-> "reject", body |-> <<>>],
   [kind |-> "http_error",
    body |-> IF m = "retrieval" THEN <<[text |-> <<"a">>]>> ELSE <<"A", ".">>]}
  \cup [kind : {"ok"}, body : bodies]

\* generateOllama trims data.response; callRagAPI returns data.answer as it is
PipelineOutput(m, body) == IF m = "ollama" THEN trim(OrEmpty(body)) ELSE OrEmpty(body)

\* the eval type dispatch of run.mjs
Score(evalType, actual, reference) ==
  CASE evalType = "dontknow" -> Verdict(checkDontKnow(actual), JsNull)
    [] evalType = "regex" -> checkRegex(actual, reference)
    [] OTHER -> Verdict(checkContains(actual, reference), JsNull)

\* mutant of CatchCode: the catch block leaves error null
CatchCodeUnset == JsNull

\* catch (e) { error = "PIPELINE_ERROR" }
CatchCode == "PIPELINE_ERROR"

\* if (error) pass = false
ForceFail(error, pass) == IF error # JsNull THEN FALSE ELSE pass

\* mutant of AfterCase: a case that ends with an error ends the run
AfterCaseRethrow(error) == IF error # JsNull THEN "aborted" ELSE "loop"

\* the loop goes on to the next case whatever the case's error
AfterCase(error) == "loop"

\* mutant of NextCase: a case that ended with an error is run again
NextCaseRetryOnError(i, error) == IF error # JsNull THEN i ELSE i + 1

\* for (const t of tests): the next case, whatever the case's error
NextCase(i, error) == i + 1

\* mutant of AfterWarmup: a failed warm-up call ends the run
AfterWarmupRethrow(ok) == IF ok THEN "loop" ELSE "aborted"

\* catch {}: the loop starts whatever the warm-up call came to
AfterWarmup(ok) == "loop"

\* mutant of AfterProbe: the probe's answer is ignored
AfterProbeIgnored(healthy) == "warmup"

\* if (!apiHealthy) process.exit(1)
AfterProbe(healthy) == IF healthy THEN "warmup" ELSE "exited"

\* mutant of GenOutcome: the output is cut before it is checked
GenOutcomeCutFirst(t, resp) ==
  IF resp.kind # "ok"
  THEN [pass |-> FALSE, error |-> CatchCode, actual |-> <<>>, scored |-> FALSE]
  ELSE LET actual == Truncate(PipelineOutput(mode, resp.body))
           res == Score(RowEvalType(t), actual, RowReference(t))
       IN  [pass |-> res.pass, error |-> res.error, actual |-> actual,
            scored |-> TRUE]

\* the try block of one iteration of run.mjs: the call and the check
GenOutcome(t, resp) ==
  IF resp.kind # "ok"
  THEN [pass |-> FALSE, error |-> CatchCode, actual |-> <<>>, scored |-> FALSE]
  ELSE LET actual == PipelineOutput(mode, resp.body)
           res == Score(RowEvalType(t), actual, RowReference(t))
       IN  [pass |-> res.pass, error |-> res.error, actual |-> actual,
            scored |-> TRUE]

\* the try block of one iteration of retrieval_eval.mjs
RetOutcome(t, resp) ==
  IF resp.kind # "ok"
  THEN [hit |-> FALSE, error |-> CatchCode, results |-> <<>>, scored |-> FALSE]
  ELSE [hit |-> checkRetrievalHit(resp.body, RowReference(t)), error |-> JsNull,
        results |-> resp.body, scored |-> TRUE]

InitRun ==
  /\ NormIdle
  /\ CmpIdle
  /\ RestIdle
  /\ mode \in Modes
  /\ golden \in GoldenFiles
  /\ bodies = (IF mode = "retrieval" THEN RetrievedLists ELSE Outputs)
  /\ pc = "start"
  /\ health = "none"
  /\ warmup = "none"
  /\ idx = 1
  /\ calls = <<>>
  /\ responses = <<>>
  /\ verdicts = {}
  /\ items = <<>>
  /\ passed = 0
  /\ archive = <<>>

Frame ==
  /\ UNCHANGED normVars
  /\ UNCHANGED cmpVars
  /\ UNCHANGED restVars
  /\ UNCHANGED <<mode, golden, bodies>>

\* JSON.parse(testsRaw) throws on a malformed file; tests.length throws when
\* tests is null
ReadGoldenStep ==
  /\ pc = "start"
  /\ pc' = IF golden.kind \in {"malformed", "null"} THEN "aborted" ELSE "health"
  /\ UNCHANGED <<health, warmup, idx, calls, responses, verdicts, items, passed,
                 archive>>
  /\ Frame

GenReadGolden == mode \in {"ollama", "api"} /\ ReadGoldenStep

RetReadGolden == mode = "retrieval" /\ ReadGoldenStep

\* if (useAPI) { healthCheck ... }: no probe without --api
GenHealth ==
  /\ mode \in {"ollama", "api"}
  /\ pc = "health"
  /\ \/ /\ mode = "ollama"
        /\ pc' = "warmup"
        /\ UNCHANGED health
     \/ /\ mode = "api"
        /\ \E healthy \in BOOLEAN :
             /\ health' = IF healthy THEN "ok" ELSE "failed"
             /\ pc' = AfterProbe(healthy)
  /\ UNCHANGED <<warmup, idx, calls, responses, verdicts, items, passed, archive>>
  /\ Frame

RetHealth ==
  /\ mode = "retrieval"
  /\ pc = "health"
  /\ \E healthy \in BOOLEAN :
       /\ health' = IF healthy THEN "ok" ELSE "failed"
       /\ pc' = AfterProbe(healthy)
  /\ UNCHANGED <<warmup, idx, calls, responses, verdicts, items, passed, archive>>
  /\ Frame

\* try { await <pipeline>("ping") } catch {}
WarmupStep ==
  /\ pc = "warmup"
  /\ calls' = Append(calls, 0)
  /\ \E ok \in BOOLEAN :
       /\ warmup' = IF ok THEN "ok" ELSE "failed"
       /\ pc' = AfterWarmup(ok)
  /\ UNCHANGED <<health, idx, responses, verdicts, items, passed, archive>>
  /\ Frame

GenWarmup == mode \in {"ollama", "api"} /\ WarmupStep

RetWarmup == mode = "retrieval" /\ WarmupStep

\* for (const t of tests): an object or a number is not iterable
IterateThrows ==
  /\ pc = "loop"
  /\ golden.kind \in {"object", "number"}
  /\ pc' = "aborted"
  /\ UNCHANGED <<health, warmup, idx, calls, responses, verdicts, items, passed,
                 archive>>
  /\ Frame

\* the head of an iteration, up to the await of the pipeline call
CaseCallStep ==
  /\ pc = "loop"
  /\ golden.kind \in {"array", "string"}
  /\ idx <= Len(golden.rows)
  /\ calls' = Append(calls, idx)
  /\ pc' = "await"
  /\ UNCHANGED <<health, warmup, idx, responses, verdicts, items, passed, archive>>
  /\ Frame

GenCaseCall == mode \in {"ollama", "api"} /\ CaseCallStep

RetCaseCall == mode = "retrieval" /\ CaseCallStep

\* the rest of an iteration of run.mjs, from the settled call to the next
\* case; latency_ms is not modelled
GenCaseSettle ==
  /\ mode \in {"ollama", "api"}
  /\ pc = "await"
  /\ \E resp \in Responses(mode) :
       LET t == golden.rows[idx]
           o == GenOutcome(t, resp)
           pass == ForceFail(o.error, o.pass)
       IN  /\ responses' = Append(responses, resp)
           /\ verdicts' = IF o.scored THEN verdicts \cup {idx} ELSE verdicts
           /\ items' = Append(items, [id |-> RowId(t), pass |-> pass,
                                      error |-> o.error,
                                      actual |-> Truncate(o.actual)])
           /\ passed' = IF pass THEN passed + 1 ELSE passed
           /\ pc' = AfterCase(o.error)
           /\ idx' = NextCase(idx, o.error)
  /\ UNCHANGED <<health, warmup, calls, archive>>
  /\ Frame

\* the rest of an iteration of retrieval_eval.mjs; latency_ms and the echoed
\* question, expected_substring and retrieved_snippets are not modelled
RetCaseSettle ==
  /\ mode = "retrieval"
  /\ pc = "await"
  /\ \E resp \in Responses(mode) :
       LET t == golden.rows[idx]
           o == RetOutcome(t, resp)
           hit == ForceFail(o.error, o.hit)
       IN  /\ responses' = Append(responses, resp)
           /\ verdicts' = IF o.scored THEN verdicts \cup {idx} ELSE verdicts
           /\ items' = Append(items, [id |-> RowId(t), hit |-> hit,
                                      error |-> o.error,
                                      retrieved_count |-> Len(o.results)])
           /\ passed' = IF hit THEN passed + 1 ELSE passed
           /\ pc' = AfterCase(o.error)
           /\ idx' = NextCase(idx, o.error)
  /\ UNCHANGED <<health, warmup, calls, archive>>
  /\ Frame

\* after the loop: the summary, and the two writes of { summary, items }
FinishStep(counter) ==
  /\ pc = "loop"
  /\ golden.kind \in {"array", "string"}
  /\ idx > Len(golden.rows)
  /\ archive' = Append(archive,
                       [summary |-> [total |-> TestsLength(golden), counter |-> passed],
                        items |-> items])
  /\ pc' = "done"
  /\ UNCHANGED <<health, warmup, idx, calls, responses, verdicts, items, passed>>
  /\ Frame

GenFinish == mode \in {"ollama", "api"} /\ FinishStep("passed")

RetFinish == mode = "retrieval" /\ FinishStep("hits")

Next ==
  \/ GenReadGolden \/ RetReadGolden
  \/ GenHealth \/ RetHealth
  \/ GenWarmup \/ RetWarmup
  \/ IterateThrows
  \/ GenCaseCall \/ RetCaseCall
  \/ GenCaseSettle \/ RetCaseSettle
  \/ GenFinish \/ RetFinish

Spec == InitRun /\ [][Next]_vars

(* The executors with a pipeline that answers more than the harness stores or
   asks for *)

\* parseInt(process.env.TOP_K) || 5, with TOP_K not set
TOP_K == 5

\* an answer of TruncateAt + 2 characters that ends with " a"
LongOutput ==
  [i \in 1..(TruncateAt + 2) |->
     IF i = TruncateAt + 2 THEN "a" ELSE IF i = TruncateAt + 1 THEN " " ELSE "b"]

\* a result list of TOP_K + 1 snippets, the last one alone holding "a"
LongList ==
  [i \in 1..(TOP_K + 1) |-> [text |-> IF i = TOP_K + 1 THEN <<"a">> ELSE <<"b">>]]

\* the golden files of these runs: no case, a contains case, a contains case
\* and a regex case, and a file that holds no array
OversizedGoldenFiles ==
  [kind : {"array"},
   rows : {<<>>,
           <<Row("3", <<"a">>, "contains")>>,
           <<Row("3", <<"a">>, "contains"), Row("7", <<"a">>, "regex")>>}]
  \cup [kind : {"object"}, rows : {<<>>}]

InitOversized ==
  /\ NormIdle
  /\ CmpIdle
  /\ RestIdle
  /\ mode \in Modes
  /\ golden \in OversizedGoldenFiles
  /\ bodies = (IF mode = "retrieval" THEN {<<[text |-> <<"b">>]>>, LongList}
                                     ELSE {<<"b">>, LongOutput})
  /\ pc = "start"
  /\ health = "none"
  /\ warmup = "none"
  /\ idx = 1
  /\ calls = <<>>
  /\ responses = <<>>
  /\ verdicts = {}
  /\ items = <<>>
  /\ passed = 0
  /\ archive = <<>>

SpecOversized == InitOversized /\ [][Next]_vars

(* Properties of the run executors *)

\* the pass flag of a generation item, the hit flag of a retrieval item
PassOrHit(item) == IF "pass" \in DOMAIN item THEN item.pass ELSE item.hit

\* the pipeline calls made for golden cases (not the warm-up)
CaseCalls == {i \in 1..Len(calls) : calls[i] # 0}

\* C5: a case whose pipeline call is rejected or answered with a non-success
\* status is recorded with pass/hit false and error PIPELINE_ERROR, no check
\* function is invoked for it, and it is not counted in passed/hits.
C5_PipelineFailureRecorded ==
  /\ \A i \in 1..Len(items) :
       responses[i].kind # "ok" =>
         /\ items[i].error = "PIPELINE_ERROR"
         /\ ~PassOrHit(items[i])
         /\ i \notin verdicts
  /\ passed <= Cardinality({i \in 1..Len(items) : responses[i].kind = "ok"})

C5_Witness ==
  /\ pc = "done"
  /\ mode = "api"
  /\ Len(items) = 2
  /\ responses[1].kind = "http_error"
  /\ responses[2].kind = "ok"
  /\ items[1].error = "PIPELINE_ERROR"
  /\ passed = 1

\* C6: a case that ends with PIPELINE_ERROR or BAD_REGEX never ends the run:
\* once an item carries an error the run is neither aborted nor exited, the
\* loop always has a next step, and a finished run has recorded one item per
\* golden case and written them to its archive.
C6_CaseFailureNeverAborts ==
  /\ (\E i \in 1..Len(items) : items[i].error # JsNull) =>
       pc \notin {"aborted", "exited"}
  /\ pc \in {"loop", "await"} /\ golden.kind = "array" => ENABLED Next
  /\ pc = "done" =>
       /\ Len(items) = Len(golden.rows)
       /\ Len(archive) = 1
       /\ Len(archive[1].items) = Len(golden.rows)

C6_Witness ==
  /\ pc = "done"
  /\ Len(golden.rows) = 2
  /\ items[1].error = "PIPELINE_ERROR"
  /\ items[2].error = "BAD_REGEX"
  /\ Len(archive[1].items) = 2

\* C7: a regex case whose pattern is no valid regular expression is recorded
\* with pass false and error BAD_REGEX, whatever the pipeline's output.
C7_InvalidPatternIsBadRegex ==
  \A i \in 1..Len(items) :
    ( /\ mode # "retrieval"
      /\ responses[i].kind = "ok"
      /\ RowEvalType(golden.rows[i]) = "regex"
      /\ RegExpThrows(StringOf(RowReference(golden.rows[i]))) ) =>
        ~items[i].pass /\ items[i].error = "BAD_REGEX"

\* C8: after a failed liveness probe the run is over: no pipeline call (case
\* or warm-up) has been or is ever made, no item is recorded, no archive is
\* written.
C8_FailedProbeHaltsRun ==
  health = "failed" =>
    /\ pc = "exited"
    /\ calls = <<>>
    /\ items = <<>>
    /\ archive = <<>>

C8_Witness ==
  /\ health = "failed"
  /\ pc = "exited"
  /\ mode = "retrieval"
  /\ golden.kind = "array"
  /\ Len(golden.rows) = 2

\* C9: with a golden array in which some row lacks a key readGoldenJSON
\* requires, no pipeline call is made for any case, no item is recorded and no
\* archive is written.
C9_IncompleteRowFailsLoad ==
  golden.kind = "array" /\ readGoldenJSONThrows(golden, mode) =>
      /\ CaseCalls = {}
      /\ items = <<>>
      /\ archive = <<>>

\* C10: with a golden file whose top-level JSON value is no array, no
\* pipeline call is made for any case and no item is recorded.
C10_NonArrayIsFatal ==
  golden.kind \in {"object", "string", "number", "null"} =>
    /\ CaseCalls = {}
    /\ items = <<>>

\* the pass/hit flag and the error that row i and the pipeline's response to
\* its call give, by the loop body alone
CaseVerdict(i) ==
  IF mode = "retrieval"
  THEN LET o == RetOutcome(golden.rows[i], responses[i])
       IN  [flag |-> ForceFail(o.error, o.hit), error |-> o.error]
  ELSE LET o == GenOutcome(golden.rows[i], responses[i])
       IN  [flag |-> ForceFail(o.error, o.pass), error |-> o.error]

\* C13: the warm-up call is issued once and before the first case's call, and
\* what it comes to never affects scoring: a failed warm-up does not keep the
\* loop from running, and every item's pass/hit and error, and the passed
\* count, are determined by the golden rows and the per-case responses alone.
C13_WarmupOnceAndDiscarded ==
  /\ Cardinality({i \in 1..Len(calls) : calls[i] = 0}) <= 1
  /\ warmup # "none" <=> (\E i \in 1..Len(calls) : calls[i] = 0)
  /\ CaseCalls # {} => calls[1] = 0
  /\ pc \in {"loop", "await", "done"} => warmup # "none"
  /\ warmup = "failed" /\ golden.kind \in {"array", "string"} =>
       pc \in {"loop", "await", "done"}
  /\ \A i \in 1..Len(items) :
       LET v == CaseVerdict(i)
       IN  PassOrHit(items[i]) = v.flag /\ items[i].error = v.error
  /\ passed = Cardinality({i \in 1..Len(items) : PassOrHit(items[i])})

\* a finished two-case run whose warm-up call failed and whose first case
\* passed all the same
C13_Witness ==
  /\ pc = "done"
  /\ warmup = "failed"
  /\ calls = <<0, 1, 2>>
  /\ Len(items) = 2
  /\ PassOrHit(items[1])
  /\ passed >= 1

\* C14: every stored item's actual is at most 8192 characters long, being the
\* first 8192 characters of the pipeline's output, and the item's pass is the
\* verdict of its check on the whole output.
C14_TruncatedAfterScoring ==
  mode # "retrieval" =>
    \A i \in 1..Len(items) :
      /\ Len(items[i].actual) <= 8192
      /\ responses[i].kind = "ok" =>
           LET t == golden.rows[i]
               full == PipelineOutput(mode, responses[i].body)
               res == Score(RowEvalType(t), full, RowReference(t))
           IN  /\ items[i].pass = (res.pass /\ res.error = JsNull)
               /\ items[i].actual = SubSeq(full, 1, IF Len(full) < 8192
                                                    THEN Len(full) ELSE 8192)

\* an output longer than 8192 characters whose only "a" lies beyond character
\* 8192: the contains case passed, and what is stored of the output would not
C14_Witness ==
  /\ mode = "api"
  /\ pc = "done"
  /\ Len(items) = 2
  /\ RowEvalType(golden.rows[1]) = "contains"
  /\ Len(responses[1].body) > 8192
  /\ items[1].pass
  /\ Len(items[1].actual) = 8192
  /\ ~checkContains(items[1].actual, RowReference(golden.rows[1]))

\* C19: in the retrieval executor the list handed to checkRetrievalHit never
\* has more than TOP_K entries, so that a hit is always owed to one of the
\* first TOP_K snippets of the pipeline's response.
C19_HitWithinTopK ==
  mode = "retrieval" =>
    \A i \in 1..Len(items) :
      /\ items[i].retrieved_count <= TOP_K
      /\ items[i].hit =>
           checkRetrievalHit(SubSeq(responses[i].body, 1, TOP_K),
                             RowReference(golden.rows[i]))

----------------------------------------------------------------------------
(* Properties of the check functions *)

\* needle is hay[i+1..j] for some i <= j
IsSubstring(needle, hay) ==
  \E i, j \in 0..Len(hay) : i <= j /\ SubSeq(hay, i + 1, j) = needle

\* a reference that is null, empty, whitespace only or punctuation only
IsBlankReference(ref) ==
  \/ ref = Null
  \/ \A i \in 1..Len(ref) : ref[i] \in WhiteSpace
  \/ \A i \in 1..Len(ref) : ref[i] \in TrailingPunct

\* C15: the contains check passes exactly when the normalized output has the
\* normalized reference as a substring; a reference that is null, empty,
\* whitespace only or punctuation only passes for every output; "42" passes
\* for "The answer is 42." and fails for "The answer is forty-two.".
C15_ContainsNormalizedSubstring ==
  chkDone /\ chkType = "contains" =>
    /\ chkRes.pass <=>
         IsSubstring(normalizeAggressive(chkRef), normalizeAggressive(chkOut))
    /\ chkRes.error = JsNull
    /\ IsBlankReference(chkRef) => chkRes.pass
    /\ chkRef = <<"4", "2">> /\ chkOut = TheAnswerIs42 => chkRes.pass
    /\ chkRef = <<"4", "2">> /\ chkOut = TheAnswerIsFortyTwo => ~chkRes.pass

\* the empty output checked against a reference of punctuation only
C15_Witness ==
  /\ chkDone
  /\ chkType = "contains"
  /\ chkOut = <<>>
  /\ chkRef = <<".", ".">>
  /\ chkRes.pass

\* whitespace, then punctuation from . , ; : ! ?, then whitespace
IsTrail(t) ==
  \E j, k \in 0..Len(t) :
    /\ j <= k
    /\ \A i \in 1..j : t[i] \in WhiteSpace
    /\ \A i \in (j + 1)..k : t[i] \in TrailingPunct
    /\ \A i \in (k + 1)..Len(t) : t[i] \in WhiteSpace

\* the canonical phrase, followed by trailing punctuation, within whitespace
IsCanonicalRefusal(out) ==
  \E head \in {<<>>, <<" ">>}, tail \in DontKnowTails :
    out = head \o DontKnowPhrase \o tail /\ IsTrail(tail)

\* C16: the dontknow check passes exactly for the outputs that are the
\* canonical phrase "I don't know" followed by trailing punctuation and
\* surrounded by whitespace; an output that holds more than the phrase, or a
\* paraphrase of it, fails.
C16_DontKnowExactPhrase ==
  chkDone /\ chkType = "dontknow" =>
    (chkRes.pass <=> IsCanonicalRefusal(chkOut))

\* the pattern has an anchor: a "^" or "$" that is an assertion, not a
\* character named by an escape
HasAnchorAssertion(raw) ==
  \E i \in 1..Len(Lex(raw)) : Lex(raw)[i].k \in {"bol", "eol"}

\* C17: the first tier, the pattern as authored, is tried only when the
\* pattern has leading and trailing ".*" or holds a "^"/"$" anchor; a check
\* passes exactly when a tier that is tried matches; "^45 degrees$" fails
\* the first tier on "It is about 45 degrees." and passes by the third, and
\* ".*45 degrees.*" passes by the first.
C17_TiersInOrder ==
  chkDone /\ chkType = "regex" =>
    LET raw == StringOf(chkRef)
        out == normalizeForRegex(trim(OrEmpty(chkOut)))
        core == StripAnchors(raw)
        first == (hasWildcardEdges(raw) \/ HasAnchorAssertion(raw))
                   /\ RegExpTest(raw, out)
        second == RegExpTest(exactish(core), out)
        third == RegExpTest(tailBounded(core), out)
    IN  /\ ( /\ ~RegExpThrows(raw)
             /\ ~RegExpThrows(exactish(core))
             /\ ~RegExpThrows(tailBounded(core)) ) =>
               (chkRes.pass <=> (first \/ second \/ third))
        /\ chkOut = ItIsAbout45Degrees /\ chkRef = Anchored45Degrees =>
             ~first /\ ~second /\ third /\ chkRes.pass
        /\ chkOut = ItIsAbout45Degrees /\ chkRef = Wildcard45Degrees =>
             first /\ chkRes.pass

\* the orderings of a sequence
Reorderings(seq) ==
  {[i \in 1..Len(seq) |-> seq[f[i]]] :
     f \in {g \in [1..Len(seq) -> 1..Len(seq)] :
              \A i, j \in 1..Len(seq) : i # j => g[i] # g[j]}}

\* C18: checkRetrievalHit is true exactly when some result's normalized text
\* holds the normalized expected substring, and every reordering of the
\* results gives the same answer.
C18_HitIsAnyAndOrderFree ==
  chkDone /\ chkType = "hit" =>
    /\ chkRes.pass <=>
         \E r \in {chkOut[i] : i \in 1..Len(chkOut)} :
           IsSubstring(normalizeText(chkRef), normalizeText(r.text))
    /\ \A reordered \in Reorderings(chkOut) :
         checkRetrievalHit(reordered, chkRef) = chkRes.pass

\* two results of which only the second holds the expected "a b", under
\* other case and spacing
C18_Witness ==
  /\ chkDone
  /\ chkType = "hit"
  /\ chkOut = <<[text |-> <<"b">>], [text |-> <<"A", "\t", " ", "b">>]>>
  /\ chkRef = <<"a", " ", "B">>
  /\ chkRes.pass

\* the positions of the cases called so far, in the order of the calls
CaseCallOrder == SelectSeq(calls, LAMBDA c : c # 0)

\* C20: the cases are run one at a time, once each, in the order of the
\* golden set: the n-th case call is for the n-th case, it is issued only
\* when the items of all earlier cases are recorded, no case is called twice,
\* and a finished run holds one item per case, the i-th with the i-th id.
C20_SequentialOnceInOrder ==
  /\ \A n \in 1..Len(CaseCallOrder) : CaseCallOrder[n] = n
  /\ Len(items) <= Len(CaseCallOrder)
  /\ Len(CaseCallOrder) <= Len(items) + 1
  /\ Len(CaseCallOrder) = Len(items) + 1 <=> pc = "await"
  /\ Len(responses) = Len(items)
  /\ \A i \in 1..Len(items) :
       "id" \in DOMAIN golden.rows[i] => items[i].id = golden.rows[i].id
  /\ pc = "done" =>
       /\ Len(items) = Len(golden.rows)
       /\ Len(CaseCallOrder) = Len(golden.rows)

\* a finished run of two cases of different ids, the first of which ended
\* with an error
C20_Witness ==
  /\ pc = "done"
  /\ golden.kind = "array"
  /\ calls = <<0, 1, 2>>
  /\ <<items[1].id, items[2].id>> = <<"7", "3">>
  /\ items[1].error # JsNull

\* the items with a non-null error are failures, and the counter is the number
\* of passing items
ItemsAndCounterAgree(its, counter) ==
  /\ \A i \in 1..Len(its) : its[i].error # JsNull => ~PassOrHit(its[i])
  /\ counter = Cardinality({i \in 1..Len(its) : PassOrHit(its[i])})

\* C22: at every point of a run and in the written archive, every item with
\* a non-null error has pass (hit) = false and the passed (hits) counter is
\* the number of recorded items with pass (hit) = true; in the archive
\* summary.total is the number of items, so the counter is at most total.
C22_ItemsCounterTotal ==
  /\ ItemsAndCounterAgree(items, passed)
  /\ \A k \in 1..Len(archive) :
       /\ ItemsAndCounterAgree(archive[k].items, archive[k].summary.counter)
       /\ archive[k].summary.total = Len(archive[k].items)
       /\ archive[k].summary.counter <= archive[k].summary.total
====
